---- MODULE Spec2Model ----
(***************************************************************************)
(* Index lifecycle (routes/embedding_routes.py, services/embedding_service *)
(* .py), index search and rank fusion (services/search_service.py) of the  *)
(* sdqrag repository, as state machines.                                   *)
(*                                                                         *)
(*   Spec        the index lifecycle: create_index / rebuild_indexes       *)
(*               requests, their background threads, and search_index      *)
(*               running concurrently with them.                           *)
(*   SearchSpec  one search of a ready index: _search_faiss_index and      *)
(*               _search_tfidf_index on every small index, query and top_k *)
(*   FuseSpec    one search_entities call: the four strategies put their   *)
(*               candidates into the result lists, then                    *)
(*               _combine_and_rank_results fuses them.                     *)
(*   StrategySpec one run of a strategy (_semantic_search, _keyword_search, *)
(*               _fuzzy_search, _exact_search) for one text on a small     *)
(*               project.                                                  *)
(*   EntitySpec  one search_entities call with its strategies run by their *)
(*               code, and one place of the call raising.                  *)
(*   LiveSpec    the index lifecycle with every started thread taking its  *)
(*               steps (weak fairness per thread).                         *)
(*   LoadSpec    load_model called by several EmbeddingService instances.  *)
(*   FuzzySpec   one _fuzzy_search call on a project with same-named       *)
(*               columns or more names than the candidate limit.           *)
(***************************************************************************)
EXTENDS Integers, Sequences, FiniteSets, TLC

(***************************************************************************)
(* Bounds of the model.                                                    *)
(***************************************************************************)
\* rows the search_indexes table can hold (descriptor ids 1..MaxIndexes)
MaxIndexes == 2
\* background threads started over a run (one per accepted create/rebuild)
MaxBuilds == 2

\* index_name values a request can carry
IndexNames == {"a", "b"}
\* index_type values a request can carry
IndexTypes == {"faiss", "tfidf"}
\* ids of the project's rows in table_info
Tables == {1, 2}
\* ids of the project's rows in data_dictionary
Entries == {1}
\* target_ids values a request can carry (3 is no table and no dictionary
\* entry of the project)
TargetChoices == {{}, {1, 2}, {3}}
\* the <<target_type, target_ids>> a request can carry
TargetRequests == ({"tables"} \X TargetChoices) \cup {<<"dictionary", {3}>>}
\* embedding_model_id values a request can carry; 0 is "not given" (None)
NoModel == 0
TheModel == 1
ModelChoices == {NoModel, TheModel}

\* rows (vectors and metadata entries) of the index a search runs on
MaxRows == 3
\* top_k arguments run from -MaxTopK to MaxTopK
MaxTopK == 2

IndexIds == 1..MaxIndexes
TaskIds == 1..MaxBuilds

VARIABLES
    indexes,     \* the search_indexes table: a sequence of rows, id = position
    modelReady,  \* embedding model 1 is downloaded, status 'ready', files present
    files,       \* the indexes directory: path -> content (NoFile when absent)
    tasks,       \* the background threads: TaskIds -> thread state
    search,      \* one caller of EmbeddingService.search_index
    response,    \* the last HTTP response of create_index / rebuild_indexes
    qType,       \* _search_faiss_index / _search_tfidf_index: the index type
    qSims,       \* the similarity of the query to each stored row, in row order
    qTopK,       \* the top_k argument
    qOut,        \* the list the search returned
    qPc,         \* "call" before the search has run, "done" after
    results,     \* search_entities: the results dict, key -> list of dicts
    returned,    \* the candidates as the strategies returned them
    config,      \* the search_config of the call
    fPc,         \* "search" while the strategies run, "done" after the fusion
    again,       \* what a second _combine_and_rank_results call returned
    sProject,    \* the project's tables, dictionary and indexes
    sText,       \* the text (query) the strategy is run for
    sType,       \* the entity_type of the text
    sMethod,     \* the strategy that ran
    sFound,      \* the list the strategy returned
    sRaised,     \* the strategy raised to its caller
    sFailed,     \* search_entities: the step an exception is raised in
    sPc,         \* "call" before the strategy has run, "done" after
    lCalls,      \* the callers of load_model: where each is in its call
    lCache,      \* models_cache of each caller's EmbeddingService
    lLoads       \* how often the encoder was loaded from storage

\* the index lifecycle
lifeVars == <<indexes, modelReady, files, tasks, search, response>>
\* one search of a ready index
queryVars == <<qType, qSims, qTopK, qOut, qPc>>

\* what the lifecycle leaves alone
\* one search_entities call
fuseVars == <<results, returned, config, fPc, again>>

\* one run of a strategy
stratVars == <<sProject, sText, sType, sMethod, sFound, sRaised, sFailed, sPc>>

\* the callers of EmbeddingService.load_model
loadVars == <<lCalls, lCache, lLoads>>

pureVars == <<queryVars, fuseVars, stratVars, loadVars>>

vars == <<lifeVars, pureVars>>

(***************************************************************************)
(* Paths and files.  A path is <<kind, id>>: faiss_<id>.index,             *)
(* faiss_<id>_metadata.pkl, tfidf_<id>.pkl.                                *)
(***************************************************************************)
NoPath == <<"none", 0>>
NoFile == [task |-> 0, for |-> 0, n |-> 0]
Paths == {"faiss", "faiss_meta", "tfidf"} \X IndexIds

\* os.path.join(self.indexes_dir, f"faiss_{search_index.id}.index") and
\* os.path.join(self.indexes_dir, f"tfidf_{search_index.id}.pkl")
IndexPath(type, id) == <<type, id>>

\* search_index.index_path.replace('.index', '_metadata.pkl'), which leaves a
\* tfidf_<id>.pkl path as it is
MetadataPath(path) == IF path[1] = "faiss" THEN <<"faiss_meta", path[2]>> ELSE path

NoTask == [pc |-> "free", kind |-> "none", queue |-> <<>>, index_id |-> 0,
           sidx |-> 0, n |-> 0, result |-> "none", cached |-> FALSE]

\* a thread that has returned
Done == [NoTask EXCEPT !.pc = "done"]

NoSearch == [pc |-> "idle", id |-> 0, status |-> "none", path |-> NoPath,
             idx |-> NoFile, meta |-> NoFile, result |-> "none"]

\* the human-readable cause a failure stores in error_message: every cause of
\* the source is a non-empty text
Cause == "cause"

NoResponse == [op |-> "none", code |-> 0]

\* no search of a ready index is being looked at
QueryIdle ==
    /\ qType = "none"
    /\ qSims = <<>>
    /\ qTopK = 0
    /\ qOut = <<>>
    /\ qPc = "idle"

\* the keys of the results dict, in the order search_entities inserts them
ResultKeys ==
    <<"semantic_results", "keyword_results", "fuzzy_results", "exact_results",
      "combined_results">>

KeySet == {ResultKeys[i] : i \in 1..Len(ResultKeys)}

\* a search_config that sets nothing
NoConfig == [k \in {} |-> 0]

\* no search_entities call is being looked at
FuseIdle ==
    /\ results = [k \in KeySet |-> <<>>]
    /\ returned = [k \in KeySet |-> <<>>]
    /\ config = NoConfig
    /\ fPc = "idle"
    /\ again = <<>>

\* a caller that is not inside load_model: calls counts its finished calls
NoCall == [pc |-> "idle", calls |-> 0]

\* nobody calls load_model
LoadIdle ==
    /\ lCalls = <<>>
    /\ lCache = <<>>
    /\ lLoads = 0

\* no strategy run is being looked at
StrategyIdle ==
    /\ sProject = <<>>
    /\ sText = <<>>
    /\ sType = "none"
    /\ sMethod = "none"
    /\ sFound = <<>>
    /\ sRaised = FALSE
    /\ sFailed = "none"
    /\ sPc = "idle"

Init ==
    /\ indexes = <<>>
    /\ modelReady = TRUE
    /\ files = [p \in Paths |-> NoFile]
    /\ tasks = [b \in TaskIds |-> NoTask]
    /\ search = NoSearch
    /\ response = NoResponse
    /\ QueryIdle
    /\ FuseIdle
    /\ StrategyIdle
    /\ LoadIdle

Exists(d) == d \in 1..Len(indexes)

FreeTasks == {b \in TaskIds : tasks[b].pc = "free"}

\* threading.Thread(target=...).start(): the next unused thread
NewTask == CHOOSE b \in FreeTasks : \A c \in FreeTasks : b <= c

Respond(op, code) == [op |-> op, code |-> code]

SetRow(d, row) == [indexes EXCEPT ![d] = row]

(***************************************************************************)
(* POST /<project_id>/indexes                                              *)
(***************************************************************************)
\* the 400 answers of create_index: no model for a vector index, a model that
\* is not downloaded and ready, target tables that are not all found
CreateRejected(type, target_type, targets, model) ==
    \/ type = "faiss" /\ model = NoModel
    \/ model # NoModel /\ ~modelReady
    \/ /\ target_type = "tables"
       /\ targets # {}
       /\ Cardinality(targets \cap Tables) # Cardinality(targets)

\* SearchIndex(...): the row create_index inserts
NewIndexRow(name, type, target_type, targets, model) ==
    [index_name |-> name, index_type |-> type, target_type |-> target_type,
     target_ids |-> targets,
     embedding_model_id |-> model, status |-> "building", is_built |-> FALSE,
     index_path |-> NoPath, vector_count |-> 0, error_message |-> ""]

\* the answer of create_index to a request
CreateAnswer(type, target_type, targets, model) ==
    IF CreateRejected(type, target_type, targets, model) THEN 400
    ELSE IF model = NoModel
    THEN 500   \* embedding_model_id is nullable=False: the commit raises
               \* and the handler rolls back
    ELSE 202

\* the answers of create_index that refuse a request
Refusals ==
    {CreateAnswer(type, target[1], target[2], model) :
        type \in IndexTypes, target \in TargetRequests,
        model \in ModelChoices} \ {202}

\* the request is answered 400 or 500 and nothing else happens
CreateIndexRefused ==
    /\ \E code \in Refusals : response' = Respond("create", code)
    /\ UNCHANGED <<indexes, modelReady, files, tasks, search, pureVars>>

\* the row is committed with status 'building', the thread started, 202 answered
CreateIndex ==
    /\ Len(indexes) < MaxIndexes
    /\ FreeTasks # {}
    /\ \E name \in IndexNames, type \in IndexTypes, target \in TargetRequests :
        /\ ~CreateRejected(type, target[1], target[2], TheModel)
        /\ indexes' = Append(indexes,
               NewIndexRow(name, type, target[1], target[2], TheModel))
    /\ tasks' = [tasks EXCEPT ![NewTask] =
           [NoTask EXCEPT !.pc = "build", !.kind = "create",
                          !.index_id = Len(indexes) + 1]]
    /\ response' = Respond("create", 202)
    /\ UNCHANGED <<modelReady, files, search, pureVars>>

(***************************************************************************)
(* POST /<project_id>/indexes/rebuild                                      *)
(***************************************************************************)
RECURSIVE AscendingIds(_)
\* the rows of a query, in id order
AscendingIds(S) ==
    IF S = {} THEN <<>>
    ELSE LET m == CHOOSE x \in S : \A y \in S : x <= y
         IN <<m>> \o AscendingIds(S \ {m})

\* the rows rebuild_indexes selects: those of index_ids, or all when it is empty
RebuildSelection(index_ids) ==
    IF index_ids # {} THEN {d \in index_ids : Exists(d)}
    ELSE {d \in IndexIds : Exists(d)}

RebuildIndexes ==
    \E index_ids \in SUBSET IndexIds :
        IF RebuildSelection(index_ids) = {}
        THEN /\ response' = Respond("rebuild", 404)
             /\ UNCHANGED <<indexes, modelReady, files, tasks, search, pureVars>>
        ELSE /\ FreeTasks # {}
             /\ tasks' = [tasks EXCEPT ![NewTask] =
                    [NoTask EXCEPT !.pc = "next", !.kind = "rebuild",
                                   !.queue = AscendingIds(RebuildSelection(index_ids))]]
             /\ response' = Respond("rebuild", 202)
             /\ UNCHANGED <<indexes, modelReady, files, search, pureVars>>

(***************************************************************************)
(* rebuild_task: the loop over rebuild_index_ids                           *)
(***************************************************************************)
RebuildNext(b) ==
    /\ tasks[b].pc = "next"
    /\ IF tasks[b].queue = <<>>
       THEN /\ tasks' = [tasks EXCEPT ![b] = Done]
            /\ UNCHANGED indexes
       ELSE LET d == Head(tasks[b].queue)
                row == indexes[d]
            IN IF row.index_type = "faiss" /\ row.embedding_model_id # NoModel
                  /\ ~modelReady
               THEN \* embedding model not available for rebuild: continue
                    /\ indexes' = SetRow(d, [row EXCEPT
                           !.status = "error",
                           !.error_message = Cause])
                    /\ tasks' = [tasks EXCEPT ![b].queue = Tail(@)]
               ELSE \* reset index status
                    /\ indexes' = SetRow(d, [row EXCEPT
                           !.status = "building", !.is_built = FALSE])
                    /\ tasks' = [tasks EXCEPT ![b].queue = Tail(@),
                                              ![b].index_id = d,
                                              ![b].pc = "build"]
    /\ UNCHANGED <<modelReady, files, search, response, pureVars>>

(***************************************************************************)
(* create_faiss_index / create_tfidf_index, called by both threads with    *)
(* the project, name, type, targets and model of row index_id              *)
(***************************************************************************)
\* SearchIndex.query.filter_by(project_id=..., index_name=...): the rows the
\* builder's lookup matches
SameName(d) == {s \in IndexIds : Exists(s) /\ indexes[s].index_name = indexes[d].index_name}

\* .first(): SQLite scans search_indexes in rowid order, so the row of lowest id
FirstByName(d) == CHOOSE s \in SameName(d) : \A t \in SameName(d) : s <= t

\* the rows of the project a target_type is about
TargetRows(target_type) == IF target_type = "tables" THEN Tables ELSE Entries

\* _collect_texts_for_indexing: one text per row of table_info with
\* TableInfo.id.in_(target_ids), or of data_dictionary with
\* DataDictionary.id.in_(target_ids)
CollectTexts(target_type, target_ids) ==
    Cardinality(target_ids \cap TargetRows(target_type))

\* return {"status": "error", "message": msg}
Fail(b, sidx, msg) ==
    [tasks EXCEPT ![b].result = msg, ![b].sidx = sidx, ![b].pc = "finish"]

BuildCollect(b) ==
    /\ tasks[b].pc = "build"
    /\ LET d == tasks[b].index_id
           row == indexes[d]
       IN IF row.index_type = "faiss" /\ ~modelReady
          THEN \* embedding model not found / not downloaded or ready
               /\ tasks' = Fail(b, 0, Cause)
               /\ UNCHANGED indexes
          ELSE LET s == FirstByName(d) IN
               IF CollectTexts(row.target_type, row.target_ids) = 0
               THEN /\ indexes' = SetRow(s, [indexes[s] EXCEPT
                           !.status = "error",
                           !.error_message = Cause])
                    /\ tasks' = Fail(b, s, Cause)
               ELSE /\ tasks' = [tasks EXCEPT ![b].sidx = s,
                                              ![b].n = CollectTexts(row.target_type, row.target_ids),
                                              ![b].pc = "encode"]
                    /\ UNCHANGED indexes
    /\ UNCHANGED <<modelReady, files, search, response, pureVars>>

\* load_model: the handle of self.models_cache, or a model that is ready
LoadModel(cached) == cached \/ modelReady

\* faiss: load_model and model.encode; tfidf: vectorizer.fit_transform
BuildEncode(b) ==
    /\ tasks[b].pc = "encode"
    /\ LET d == tasks[b].index_id
           s == tasks[b].sidx
           faiss == indexes[d].index_type = "faiss"
       IN IF faiss /\ ~LoadModel(tasks[b].cached)
          THEN /\ indexes' = SetRow(s, [indexes[s] EXCEPT
                      !.status = "error",
                      !.error_message = Cause])
               /\ tasks' = Fail(b, s, Cause)
          ELSE \E raised \in BOOLEAN :
               IF raised
               THEN /\ indexes' = SetRow(s, [indexes[s] EXCEPT
                           !.status = "error",
                           !.error_message = Cause])
                    /\ tasks' = [Fail(b, s, Cause)
                                   EXCEPT ![b].cached = @ \/ faiss]
               ELSE /\ tasks' = [tasks EXCEPT ![b].pc = "write_index",
                                              ![b].cached = @ \/ faiss]
                    /\ UNCHANGED indexes
    /\ UNCHANGED <<modelReady, files, search, response, pureVars>>

\* what a build writes: its thread, the row it was started for, the row count
Written(b) == [task |-> b, for |-> tasks[b].index_id, n |-> tasks[b].n]

\* faiss.write_index(faiss_index, index_path); pickle.dump(index_data, f)
BuildWriteIndex(b) ==
    /\ tasks[b].pc = "write_index"
    /\ LET type == indexes[tasks[b].index_id].index_type
       IN /\ files' = [files EXCEPT ![IndexPath(type, tasks[b].sidx)] = Written(b)]
          /\ tasks' = [tasks EXCEPT ![b].pc =
                 IF type = "faiss" THEN "write_meta" ELSE "update"]
    /\ UNCHANGED <<indexes, modelReady, search, response, pureVars>>

\* the file cannot be opened for writing: the builder's except clause sets
\* the row it looked up to 'error' with str(e) and returns the error
BuildWriteRaises(b) ==
    /\ tasks[b].pc \in {"write_index", "write_meta"}
    /\ LET s == tasks[b].sidx
       IN indexes' = SetRow(s, [indexes[s] EXCEPT
              !.status = "error",
              !.error_message = Cause])
    /\ tasks' = Fail(b, tasks[b].sidx, Cause)
    /\ UNCHANGED <<modelReady, files, search, response, pureVars>>

\* pickle.dump(metadata, f) into faiss_<id>_metadata.pkl
BuildWriteMeta(b) ==
    /\ tasks[b].pc = "write_meta"
    /\ files' = [files EXCEPT ![<<"faiss_meta", tasks[b].sidx>>] = Written(b)]
    /\ tasks' = [tasks EXCEPT ![b].pc = "update"]
    /\ UNCHANGED <<indexes, modelReady, search, response, pureVars>>

\* "Update index record": the builder's own commit on the row it looked up
BuildUpdate(b) ==
    /\ tasks[b].pc = "update"
    /\ LET s == tasks[b].sidx
           type == indexes[tasks[b].index_id].index_type
       IN indexes' = SetRow(s, [indexes[s] EXCEPT
              !.index_path = IndexPath(type, s),
              !.vector_count = tasks[b].n,
              !.is_built = TRUE,
              !.status = "ready"])
    /\ tasks' = [tasks EXCEPT ![b].result = "success", ![b].pc = "finish"]
    /\ UNCHANGED <<modelReady, files, search, response, pureVars>>

\* "Update index status based on result": the thread's commit on row index_id
TaskFinish(b) ==
    /\ tasks[b].pc = "finish"
    /\ LET d == tasks[b].index_id
       IN indexes' = SetRow(d,
              IF tasks[b].result = "success"
              THEN [indexes[d] EXCEPT !.status = "ready", !.is_built = TRUE]
              ELSE [indexes[d] EXCEPT !.status = "error",
                                      !.error_message = tasks[b].result])
    /\ tasks' = [tasks EXCEPT ![b] =
           IF tasks[b].kind = "rebuild"
           THEN [@ EXCEPT !.pc = "next", !.result = "none", !.sidx = 0, !.n = 0,
                          !.index_id = 0]
           ELSE Done]
    /\ UNCHANGED <<modelReady, files, search, response, pureVars>>

\* db.session.commit() of the thread's status update raises (SQLite:
\* database is locked).  create_index_task's except clause sets the row to
\* 'error' with str(e); rebuild_task's except clause only logs, and the
\* thread ends with the rest of its list not rebuilt
TaskCommitRaises(b) ==
    /\ tasks[b].pc = "finish"
    /\ LET d == tasks[b].index_id
       IN indexes' = IF tasks[b].kind = "create"
                     THEN SetRow(d, [indexes[d] EXCEPT !.status = "error",
                                                       !.error_message = Cause])
                     ELSE indexes
    /\ tasks' = [tasks EXCEPT ![b] = Done]
    /\ UNCHANGED <<modelReady, files, search, response, pureVars>>

(***************************************************************************)
(* EmbeddingService.search_index(index_id, query, top_k), top_k > 0        *)
(***************************************************************************)
\* the call has its result; the caller takes it next
Returned(result) == [search EXCEPT !.pc = "return", !.result = result]

\* SearchIndex.query.get(index_id); "if not search_index or not
\* search_index.is_built: return []"
SearchIndexCall ==
    /\ search.pc = "idle"
    /\ \E d \in IndexIds :
        IF ~Exists(d) \/ ~indexes[d].is_built
        THEN search' = [NoSearch EXCEPT !.pc = "return", !.id = d, !.result = "empty",
                 !.status = IF Exists(d) THEN indexes[d].status ELSE "none"]
        ELSE search' = [NoSearch EXCEPT !.pc = "read_index", !.id = d,
                 !.status = indexes[d].status, !.path = indexes[d].index_path]
    /\ UNCHANGED <<indexes, modelReady, files, tasks, response, pureVars>>

\* the file at the row's index_path can be read by the reader of the row's type
Readable(type, path) == path[1] = type /\ files[path] # NoFile

\* faiss.read_index(search_index.index_path); open(index_path) and pickle.load:
\* a missing path, a missing file or a file of the other format raises, and the
\* handler returns []
SearchReadIndex ==
    /\ search.pc = "read_index"
    /\ LET type == indexes[search.id].index_type
       IN IF ~Readable(type, search.path)
          THEN search' = Returned("empty")
          ELSE IF type = "faiss"
          THEN search' = [search EXCEPT !.pc = "read_meta", !.idx = files[search.path]]
          ELSE \* one pickle holds the matrix and the metadata; only rows of
               \* non-zero similarity to the query are returned
               \E matches \in BOOLEAN :
                 search' = [Returned(IF matches THEN "hits" ELSE "empty")
                               EXCEPT !.idx = files[search.path],
                                      !.meta = files[search.path]]
    /\ UNCHANGED <<indexes, modelReady, files, tasks, response, pureVars>>

\* _search_faiss_index: rows idx of the top_k with 0 <= idx < len(metadata)
FaissHits(nVectors, nMetadata) == IF nVectors < nMetadata THEN nVectors ELSE nMetadata

\* pickle.load of the metadata file, generate_embeddings([query]) with a fresh
\* models_cache, faiss_index.search and the formatting of its rows
SearchReadMeta ==
    /\ search.pc = "read_meta"
    /\ LET mp == MetadataPath(search.path)
       IN IF files[mp] = NoFile \/ ~LoadModel(FALSE)
          THEN search' = Returned("empty")
          ELSE search' = [Returned(IF FaissHits(search.idx.n, files[mp].n) > 0
                                   THEN "hits" ELSE "empty")
                             EXCEPT !.meta = files[mp]]
    /\ UNCHANGED <<indexes, modelReady, files, tasks, response, pureVars>>

\* the list goes back to the caller (test_index_search, _semantic_search,
\* _keyword_search)
SearchReturn ==
    /\ search.pc = "return"
    /\ search' = NoSearch
    /\ UNCHANGED <<indexes, modelReady, files, tasks, response, pureVars>>

(***************************************************************************)
(* The embedding model stops being ready (its row or files are changed     *)
(* behind the service: rebuild_task and create_faiss_index re-check it).   *)
(***************************************************************************)
ModelUnavailable ==
    /\ modelReady
    /\ modelReady' = FALSE
    /\ UNCHANGED <<indexes, files, tasks, search, response, pureVars>>

\* download_model brings the model back to is_downloaded and status 'ready'
ModelAvailable ==
    /\ ~modelReady
    /\ modelReady' = TRUE
    /\ UNCHANGED <<indexes, files, tasks, search, response, pureVars>>

Next ==
    \/ CreateIndex
    \/ CreateIndexRefused
    \/ RebuildIndexes
    \/ \E b \in TaskIds : RebuildNext(b)
    \/ \E b \in TaskIds : BuildCollect(b)
    \/ \E b \in TaskIds : BuildEncode(b)
    \/ \E b \in TaskIds : BuildWriteIndex(b)
    \/ \E b \in TaskIds : BuildWriteMeta(b)
    \/ \E b \in TaskIds : BuildWriteRaises(b)
    \/ \E b \in TaskIds : BuildUpdate(b)
    \/ \E b \in TaskIds : TaskFinish(b)
    \/ \E b \in TaskIds : TaskCommitRaises(b)
    \/ SearchIndexCall
    \/ SearchReadIndex
    \/ SearchReadMeta
    \/ SearchReturn
    \/ ModelUnavailable
    \/ ModelAvailable

Spec == Init /\ [][Next]_vars

(***************************************************************************)
(* Claims about the index lifecycle, checked under Spec.                   *)
(***************************************************************************)
\* thread b is inside create_faiss_index / create_tfidf_index
InBuild(b) == tasks[b].pc \in {"build", "encode", "write_index", "write_meta", "update"}

\* thread b has the files of the row it looked up open for writing or half
\* written
InWrite(b) == tasks[b].pc \in {"write_index", "write_meta"}

\* C1: for every descriptor at most one build is in progress: two threads are
\* never inside create_faiss_index / create_tfidf_index for the same
\* descriptor, nor writing the files of the same descriptor, at the same time.
C1_OneBuildPerDescriptor ==
    \A b1, b2 \in TaskIds :
        (b1 # b2 /\ InBuild(b1) /\ InBuild(b2)) =>
            /\ tasks[b1].index_id # tasks[b2].index_id
            /\ ~(InWrite(b1) /\ InWrite(b2) /\ tasks[b1].sidx = tasks[b2].sidx)

\* the ids a started rebuild thread b is going to rebuild
Queued(q) == {q[i] : i \in 1..Len(q)}

\* C2: a rebuild request for a descriptor whose status is 'building' is
\* rejected with a conflict (409) and changes nothing: no step starts a
\* rebuild thread that has such a descriptor in its list.
C2_RebuildWhileBuildingRejected ==
    [][\A b \in TaskIds :
          (tasks[b].pc = "free" /\ tasks'[b].kind = "rebuild") =>
              \A d \in Queued(tasks'[b].queue) : indexes[d].status # "building"]_vars

\* the status changes of a descriptor that the lifecycle allows
AllowedStatusSteps ==
    { <<"pending", "building">>, <<"building", "ready">>, <<"building", "error">>,
      <<"ready", "building">>, <<"error", "building">> }

\* C3: a descriptor is first observable as 'pending', and its status only
\* moves pending -> building -> ready | error, and from ready / error back to
\* building: never between ready and error without passing through building.
C3_StatusLifecycle ==
    [][\A d \in IndexIds :
          /\ (~Exists(d) /\ d \in 1..Len(indexes')) => indexes'[d].status = "pending"
          /\ (Exists(d) /\ indexes'[d].status # indexes[d].status) =>
                 <<indexes[d].status, indexes'[d].status>> \in AllowedStatusSteps]_vars

\* C4: every 'ready' descriptor has a storage path, the index stored there was
\* persisted for that descriptor, and its vector_count is the number of
\* metadata entries stored with that index.
C4_ReadyHasConsistentIndex ==
    \A d \in IndexIds :
        (Exists(d) /\ indexes[d].status = "ready") =>
            LET path == indexes[d].index_path
            IN /\ path # NoPath
               /\ files[path] # NoFile
               /\ files[path].for = d
               /\ files[MetadataPath(path)] # NoFile
               /\ files[MetadataPath(path)].for = d
               /\ indexes[d].vector_count = files[MetadataPath(path)].n

\* a thread has written the vector file of the storage unit at path and not
\* yet its metadata file
HalfWritten(path) ==
    \E b \in TaskIds : tasks[b].pc = "write_meta" /\ path = <<"faiss", tasks[b].sidx>>

\* C5: a search that found the descriptor searchable never reads the files of
\* an index that a build is still writing, and never pairs a vector file and
\* a metadata file written by two different builds.
C5_SearchReadsWholeIndex ==
    /\ search.pc \in {"read_index", "read_meta"} => ~HalfWritten(search.path)
    /\ (search.pc = "return" /\ search.result = "hits") =>
           /\ search.idx.task = search.meta.task
           /\ search.idx.for = search.meta.for

\* C6: search_index on a descriptor whose status is 'building' or 'error'
\* when it is called returns an empty list.
C6_NotReadySearchEmpty ==
    (search.pc = "return" /\ search.status \in {"building", "error"}) =>
        search.result = "empty"

(***************************************************************************)
(* SearchSpec: _search_faiss_index / _search_tfidf_index on a ready index. *)
(* Similarities are in tenths; row r of the model is metadata[r - 1].      *)
(***************************************************************************)
\* inner products of L2-normalised vectors (faiss) lie in [-1, 1]
FaissSims == {-5, 0, 5, 10}
\* cosine similarities of TF-IDF vectors lie in [0, 1]
TfidfSims == {0, 5, 10}
TopKs == (0 - MaxTopK)..MaxTopK

SimsOver(V) == UNION {[1..n -> V] : n \in 0..MaxRows}

\* the orders in which the n rows can be listed
Orders(n) == {p \in [1..n -> 1..n] : \A i, j \in 1..n : i # j => p[i] # p[j]}

\* similarities.argsort(): the rows by ascending similarity; the default sort
\* kind is not stable, so rows of equal similarity come in any order
Argsort(sims) ==
    {p \in Orders(Len(sims)) :
        \A i, j \in 1..Len(sims) : i < j => sims[p[i]] <= sims[p[j]]}

\* a[-k:] of Python: the last k elements for k > 0, all of a for k = 0 (-0 is
\* 0), and a[|k|:] for k < 0
LastK(a, k) ==
    LET n == Len(a)
        start == IF k > 0 THEN (IF n - k > 0 THEN n - k ELSE 0)
                 ELSE IF 0 - k < n THEN 0 - k ELSE n
    IN SubSeq(a, start + 1, n)

\* a[::-1]
Reversed(a) == [i \in 1..Len(a) |-> a[Len(a) + 1 - i]]

RECURSIVE KeepPositive(_, _, _)
\* "for i, idx in enumerate(top_indices): if similarities[idx] > 0": the rows
\* kept, each with its score and rank = i + 1
KeepPositive(sims, top, i) ==
    IF i > Len(top) THEN <<>>
    ELSE (IF sims[top[i]] > 0
          THEN <<[row |-> top[i], score |-> sims[top[i]], rank |-> i]>>
          ELSE <<>>) \o KeepPositive(sims, top, i + 1)

\* _search_tfidf_index, given the order argsort returned
SearchTfidfIndex(sims, order, top_k) ==
    KeepPositive(sims, Reversed(LastK(order, top_k)), 1)

\* faiss_index.search(query, top_k) of an IndexFlatIP: the rows by descending
\* inner product; its result heap orders rows of equal score by their id
FaissOrder(sims) ==
    CHOOSE p \in Orders(Len(sims)) :
        \A i, j \in 1..Len(sims) : i < j =>
            \/ sims[p[i]] > sims[p[j]]
            \/ sims[p[i]] = sims[p[j]] /\ p[i] < p[j]

\* _search_faiss_index, given the order faiss ranked the rows in: search
\* asserts k > 0 (the handler catches it and returns []), fills the places
\* beyond the stored rows with -1, and "idx >= 0 and idx < len(metadata)"
\* drops those
SearchFaissIndex(sims, order, top_k) ==
    IF top_k <= 0 THEN <<>>
    ELSE [i \in 1..(IF top_k < Len(sims) THEN top_k ELSE Len(sims)) |->
             [row |-> order[i], score |-> sims[order[i]], rank |-> i]]

SearchInit ==
    /\ indexes = <<>>
    /\ modelReady = TRUE
    /\ files = [p \in Paths |-> NoFile]
    /\ tasks = [b \in TaskIds |-> NoTask]
    /\ search = NoSearch
    /\ response = NoResponse
    /\ qType \in {"faiss", "tfidf"}
    /\ qSims \in SimsOver(IF qType = "faiss" THEN FaissSims ELSE TfidfSims)
    /\ qTopK \in TopKs
    /\ qOut = <<>>
    /\ qPc = "call"
    /\ FuseIdle
    /\ StrategyIdle
    /\ LoadIdle

SearchFaiss ==
    /\ qPc = "call"
    /\ qType = "faiss"
    /\ qOut' = SearchFaissIndex(qSims, FaissOrder(qSims), qTopK)
    /\ qPc' = "done"
    /\ UNCHANGED <<lifeVars, loadVars, qType, qSims, qTopK, fuseVars, stratVars>>

SearchTfidf ==
    /\ qPc = "call"
    /\ qType = "tfidf"
    /\ \E order \in Argsort(qSims) :
          qOut' = SearchTfidfIndex(qSims, order, qTopK)
    /\ qPc' = "done"
    /\ UNCHANGED <<lifeVars, loadVars, qType, qSims, qTopK, fuseVars, stratVars>>

SearchNext == SearchFaiss \/ SearchTfidf

SearchSpec == SearchInit /\ [][SearchNext]_vars

(***************************************************************************)
(* Claims about one search of a ready index, checked under SearchSpec.     *)
(***************************************************************************)
\* C7: a search with top_k <= 0 returns an empty list, for every ready dense
\* or sparse index and every query.
C7_NonPositiveTopKEmpty ==
    (qPc = "done" /\ qTopK <= 0) => qOut = <<>>

\* the rows a returned list names
RowsOf(out) == {out[i].row : i \in 1..Len(out)}

\* C8: for top_k > 0 the search returns at most top_k entries, the highest
\* scoring rows, in non-increasing score order, rows of equal score in their
\* insertion (row) order.
C8_TopKStableOrder ==
    (qPc = "done" /\ qTopK > 0) =>
        /\ Len(qOut) <= qTopK
        /\ \A i \in 1..Len(qOut) : qOut[i].score = qSims[qOut[i].row]
        /\ \A i \in 1..Len(qOut), r \in 1..Len(qSims) :
               r \notin RowsOf(qOut) => qSims[r] <= qOut[i].score
        /\ \A i, j \in 1..Len(qOut) : i < j =>
               /\ qOut[i].score >= qOut[j].score
               /\ qOut[i].score = qOut[j].score => qOut[i].row < qOut[j].row

(***************************************************************************)
(* Rank fusion: SearchService.search_entities and _combine_and_rank_results *)
(* Scores are in thousandths, weights in tenths, weighted scores in        *)
(* ten-thousandths.                                                        *)
(***************************************************************************)
\* candidates the four strategies return in one search_entities call
MaxCands == 3

\* result.get(key): the value a dict has no key for
NoId == 0
NoText == ""
NoList == <<>>
NoScore == 0 - 1

\* the keys of a result dict; name, query and source, which every strategy
\* sets next to search_method, go wherever search_method goes
Fields ==
    {"type", "id", "table_id", "column_name", "score", "search_method",
     "index_id", "matched_alias", "rank", "item_id", "weighted_score",
     "search_methods", "confidence"}

\* the value that stands for 'key not in dict'
Missing(key) ==
    CASE key \in {"id", "table_id", "index_id", "rank"} -> NoId
      [] key \in {"type", "column_name", "search_method", "matched_alias"} -> NoText
      [] key \in {"item_id", "search_methods"} -> NoList
      [] key \in {"score", "weighted_score", "confidence"} -> NoScore

Has(dict, key) == dict[key] # Missing(key)

\* dict.get(key, default)
Get(dict, key, default) == IF Has(dict, key) THEN dict[key] ELSE default

EmptyDict == [key \in Fields |-> Missing(key)]

\* the schema elements of the project: a table, one of its columns and a
\* data dictionary entry
TableElement == [EmptyDict EXCEPT !.type = "table", !.id = 1]
ColumnElement ==
    [EmptyDict EXCEPT !.type = "column", !.table_id = 1, !.column_name = "c"]
DictElement == [EmptyDict EXCEPT !.type = "dictionary", !.id = 1]

Elements == {TableElement, ColumnElement, DictElement}

\* raw scores: cosine similarities of the dense index, 1.0 / 0.8 of the
\* keyword fallback, fuzz.ratio / 100 at or above the threshold, and the
\* 1.0 / 0.9 of an exact match
SemanticScores == {504, 700}
KeywordScores == {800, 1000}
FuzzyScores == {700, 1000}
ExactScores == {900, 1000}

\* a hit of EmbeddingService.search_index as _semantic_search returns it
SemanticMatches ==
    { [e EXCEPT !.score = s, !.rank = 1, !.search_method = "semantic",
                !.index_id = 1] : e \in Elements, s \in SemanticScores }

KeywordMatches ==
    { [e EXCEPT !.score = s, !.search_method = "keyword"] :
          e \in Elements, s \in KeywordScores }

FuzzyMatches ==
    { [e EXCEPT !.score = s, !.search_method = "fuzzy"] :
          e \in Elements, s \in FuzzyScores }

\* an exact match of a name or term, or of an alias of the dictionary entry
ExactMatches ==
    { [e EXCEPT !.score = s, !.search_method = "exact"] :
          e \in Elements, s \in ExactScores }
    \cup { [DictElement EXCEPT !.score = 900, !.search_method = "exact",
                                !.matched_alias = "alias"] }

Count(all) ==
    Len(all["semantic_results"]) + Len(all["keyword_results"])
        + Len(all["fuzzy_results"]) + Len(all["exact_results"])

\* results[key].extend(<<match>>)
Extend(all, key, match) == [all EXCEPT ![key] = Append(@, match)]

\* semantic_matches = self._semantic_search(entity_text, indexes, config)
SemanticSearch ==
    /\ fPc = "search"
    /\ Count(results) < MaxCands
    /\ \E match \in SemanticMatches :
          /\ results' = Extend(results, "semantic_results", match)
          /\ returned' = Extend(returned, "semantic_results", match)
    /\ UNCHANGED <<lifeVars, loadVars, queryVars, stratVars, config, fPc, again>>

\* keyword_matches = self._keyword_search(project_id, entity_text, ...)
KeywordSearch ==
    /\ fPc = "search"
    /\ Count(results) < MaxCands
    /\ \E match \in KeywordMatches :
          /\ results' = Extend(results, "keyword_results", match)
          /\ returned' = Extend(returned, "keyword_results", match)
    /\ UNCHANGED <<lifeVars, loadVars, queryVars, stratVars, config, fPc, again>>

\* fuzzy_matches = self._fuzzy_search(project_id, entity_text, ...)
FuzzySearch ==
    /\ fPc = "search"
    /\ Count(results) < MaxCands
    /\ \E match \in FuzzyMatches :
          /\ results' = Extend(results, "fuzzy_results", match)
          /\ returned' = Extend(returned, "fuzzy_results", match)
    /\ UNCHANGED <<lifeVars, loadVars, queryVars, stratVars, config, fPc, again>>

\* exact_matches = self._exact_search(project_id, entity_text, ...)
ExactSearch ==
    /\ fPc = "search"
    /\ Count(results) < MaxCands
    /\ \E match \in ExactMatches :
          /\ results' = Extend(results, "exact_results", match)
          /\ returned' = Extend(returned, "exact_results", match)
    /\ UNCHANGED <<lifeVars, loadVars, queryVars, stratVars, config, fPc, again>>

\* method.replace('_results', '')
MethodName(key) ==
    CASE key = "semantic_results" -> "semantic"
      [] key = "keyword_results" -> "keyword"
      [] key = "fuzzy_results" -> "fuzzy"
      [] key = "exact_results" -> "exact"
      [] key = "combined_results" -> "combined"

\* the weights used when the config has no 'method_weights'
DefaultWeights ==
    [exact |-> 10, semantic |-> 8, fuzzy |-> 6, keyword |-> 7]

\* weights.get(method_name, 0.5)
UnsetWeight == 5

\* config.get('max_combined_results', 20)
DefaultMaxResults == 20

\* config.get(key, default)
ConfigGet(cfg, key, default) == IF key \in DOMAIN cfg THEN cfg[key] ELSE default

Weight(weights, method_name) ==
    IF method_name \in DOMAIN weights THEN weights[method_name] ELSE UnsetWeight

\* the search_config values a caller passes
ConfigChoices ==
    { NoConfig,
      [max_combined_results |-> 1],
      [max_combined_results |-> 0],
      [max_combined_results |-> 0 - 1],
      [method_weights |-> [exact |-> 10]] }

\* the unique identifier for deduplication: f"table_{id}",
\* f"column_{table_id}_{column_name}", f"dict_{id}", f"{type}_{id}"
ItemId(result) ==
    CASE result.type = "table" -> <<"table", result.id>>
      [] result.type = "column" -> <<"column", result.table_id, result.column_name>>
      [] result.type = "dictionary" -> <<"dict", result.id>>
      [] OTHER -> <<result.type, result.id>>

\* existing.update(result): every key of result is copied, the other keys of
\* existing stay
Update(existing, result) ==
    [key \in Fields |-> IF Has(result, key) THEN result[key] ELSE existing[key]]

\* the places of the dicts in all_results, in the order the two loops visit
\* them when all_results.items() yields the keys in the order 'keys';
\* 'combined_results' is skipped
RECURSIVE PlacesIn(_, _, _)
PlacesIn(all, keys, k) ==
    IF k > Len(keys) THEN <<>>
    ELSE (IF keys[k] = "combined_results" THEN <<>>
          ELSE [j \in 1..Len(all[keys[k]]) |-> <<keys[k], j>>])
         \o PlacesIn(all, keys, k + 1)

\* the order of the dict search_entities builds
Places(all, k) == PlacesIn(all, ResultKeys, k)

\* the first dict of combined with this item_id
Existing(combined, item_id) ==
    CHOOSE i \in 1..Len(combined) :
        /\ Get(combined[i].dict, "item_id", NoList) = item_id
        /\ \A j \in 1..(i - 1) : Get(combined[j].dict, "item_id", NoList) # item_id

\* MergeResult without the seen_items test: every result is added as new
MergeResultNoDedup(acc, at, result, weights) ==
    [combined |-> Append(acc.combined,
         [at |-> at,
          dict |-> [result EXCEPT
                       !.item_id = ItemId(result),
                       !.weighted_score =
                           Get(result, "score", 0) * Weight(weights, MethodName(at[1])),
                       !.search_methods = <<MethodName(at[1])>>]]),
     seen_items |-> acc.seen_items]

\* one turn of the inner loop: the dict at place 'at' is merged into acc,
\* where acc.combined lists the dicts by reference (.at is the place of the
\* dict in all_results, .dict its present content)
MergeResult(acc, at, result, weights) ==
    LET method_name == MethodName(at[1])
        weight == Weight(weights, method_name)
        item_id == ItemId(result)
        weighted_score == Get(result, "score", 0) * weight
    IN  IF item_id \in acc.seen_items
        THEN LET i == Existing(acc.combined, item_id)
                 existing == acc.combined[i].dict
                 methods == Get(existing, "search_methods", <<>>)
             IN  IF weighted_score > Get(existing, "weighted_score", 0)
                 THEN [acc EXCEPT !.combined[i].dict =
                          [Update(existing, result) EXCEPT
                              !.weighted_score = weighted_score,
                              !.search_methods =
                                  IF \E m \in 1..Len(methods) : methods[m] = method_name
                                  THEN methods
                                  ELSE Append(methods, method_name)]]
                 ELSE acc
        ELSE [combined |-> Append(acc.combined,
                  [at |-> at,
                   dict |-> [result EXCEPT !.item_id = item_id,
                                           !.weighted_score = weighted_score,
                                           !.search_methods = <<method_name>>]]),
              seen_items |-> acc.seen_items \cup {item_id}]

\* a local variable: the value is computed once and used under a name
Once(value, Use(_)) == CHOOSE used \in {Use(x) : x \in {value}} : TRUE

\* the two nested loops over all_results
RECURSIVE MergeAll(_, _, _, _)
MergeAll(all, places, n, weights) ==
    IF n = 0 THEN [combined |-> <<>>, seen_items |-> {}]
    ELSE Once(MergeAll(all, places, n - 1, weights),
              LAMBDA acc : MergeResult(acc, places[n],
                                       all[places[n][1]][places[n][2]], weights))

\* combined.sort(key=weighted_score, reverse=True): stable, equal keys keep
\* their order
RECURSIVE SortByScore(_)
SortByScore(combined) ==
    IF combined = <<>> THEN <<>>
    ELSE LET n == Len(combined)
             last == combined[n]
             key(x) == Get(x.dict, "weighted_score", 0)
             Place(sorted) ==
                 LET ahead == Cardinality({i \in 1..(n - 1) :
                                              key(sorted[i]) >= key(last)})
                 IN  SubSeq(sorted, 1, ahead) \o <<last>>
                         \o SubSeq(sorted, ahead + 1, n - 1)
         IN  Once(SortByScore(SubSeq(combined, 1, n - 1)), Place)

\* round(weighted_score, 3): ten-thousandths to thousandths, a half goes to
\* the even neighbour
Round3(weighted_score) ==
    LET q == weighted_score \div 10
        r == weighted_score % 10
    IN  IF r < 5 THEN q
        ELSE IF r > 5 THEN q + 1
        ELSE IF q % 2 = 0 THEN q ELSE q + 1

\* rank and confidence are set, the internal fields popped
Ranked(combined) ==
    [i \in 1..Len(combined) |->
        [combined[i] EXCEPT !.dict =
            [combined[i].dict EXCEPT
                !.rank = i,
                !.confidence = Round3(Get(combined[i].dict, "weighted_score", 0)),
                !.item_id = NoList,
                !.weighted_score = NoScore]]]

\* list[:n + 1], the cut one place too far
PrefixInclusive(list, n) ==
    SubSeq(list, 1, IF n + 1 < Len(list) THEN n + 1 ELSE Len(list))

\* list[:n]
Prefix(list, n) ==
    LET stop == IF n >= 0 THEN (IF n < Len(list) THEN n ELSE Len(list))
                ELSE (IF Len(list) + n > 0 THEN Len(list) + n ELSE 0)
    IN  SubSeq(list, 1, stop)

\* _combine_and_rank_results(all_results, entities, config): the dicts of
\* combined, by reference, sorted and ranked but not yet cut to max_results
CombineInOrder(all, keys, cfg) ==
    LET weights == ConfigGet(cfg, "method_weights", DefaultWeights)
        Merged(places) == MergeAll(all, places, Len(places), weights).combined
    IN  Once(Once(Once(PlacesIn(all, keys, 1), Merged), SortByScore), Ranked)

\* the call search_entities makes
CombineAndRank(all, cfg) == CombineInOrder(all, ResultKeys, cfg)

\* the dicts of all_results after the call: those in combined were changed
\* in place
Mutated(all, combined) ==
    [key \in KeySet |->
        [j \in 1..Len(all[key]) |->
            IF \E i \in 1..Len(combined) : combined[i].at = <<key, j>>
            THEN combined[CHOOSE i \in 1..Len(combined) :
                              combined[i].at = <<key, j>>].dict
            ELSE all[key][j]]]

\* results['combined_results'] = self._combine_and_rank_results(results,
\* entities, config); return results
CombineResults ==
    /\ fPc = "search"
    /\ \E cfg \in ConfigChoices :
          LET combined == CombineAndRank(results, cfg)
              max_results == ConfigGet(cfg, "max_combined_results", DefaultMaxResults)
              cut == Prefix(combined, max_results)
          IN  /\ config' = cfg
              /\ results' = [Mutated(results, combined) EXCEPT
                                !["combined_results"] =
                                    [i \in 1..Len(cut) |-> cut[i].dict]]
    /\ fPc' = "done"
    /\ UNCHANGED <<lifeVars, loadVars, queryVars, stratVars, returned, again>>

\* the place in the result lists of the dict that combined_results[i] refers
\* to: the dict the first call ranked i
Referent(all, i) ==
    CHOOSE p \in KeySet \X (1..MaxCands) :
        /\ p[1] # "combined_results"
        /\ p[2] <= Len(all[p[1]])
        /\ Has(all[p[1]][p[2]], "search_methods")
        /\ all[p[1]][p[2]] = all["combined_results"][i]

\* _combine_and_rank_results(results, entities, config) called once more on
\* the same lists and config; the dicts of the first call's list are the
\* dicts of the result lists, and change with them
CombineAgain ==
    /\ fPc = "done"
    /\ LET combined == CombineAndRank(results, config)
           max_results == ConfigGet(config, "max_combined_results", DefaultMaxResults)
           cut == Prefix(combined, max_results)
           mutated == Mutated(results, combined)
       IN  /\ again' = [i \in 1..Len(cut) |-> cut[i].dict]
           /\ results' = [mutated EXCEPT
                             !["combined_results"] =
                                 [i \in 1..Len(results["combined_results"]) |->
                                     LET p == Referent(results, i)
                                     IN  mutated[p[1]][p[2]]]]
    /\ fPc' = "again"
    /\ UNCHANGED <<lifeVars, loadVars, queryVars, stratVars, returned, config>>

FuseInit ==
    /\ indexes = <<>>
    /\ modelReady = TRUE
    /\ files = [p \in Paths |-> NoFile]
    /\ tasks = [b \in TaskIds |-> NoTask]
    /\ search = NoSearch
    /\ response = NoResponse
    /\ QueryIdle
    /\ results = [k \in KeySet |-> <<>>]
    /\ returned = [k \in KeySet |-> <<>>]
    /\ config = NoConfig
    /\ fPc = "search"
    /\ again = <<>>
    /\ StrategyIdle
    /\ LoadIdle

FuseNext ==
    \/ SemanticSearch
    \/ KeywordSearch
    \/ FuzzySearch
    \/ ExactSearch
    \/ CombineResults
    \/ CombineAgain

FuseSpec == FuseInit /\ [][FuseNext]_vars

(***************************************************************************)
(* Claims about rank fusion, checked under FuseSpec.                       *)
(***************************************************************************)
\* the fused list search_entities returns
Fused == results["combined_results"]

\* the places of the candidates the strategies returned
Candidates == {p \in KeySet \X (1..MaxCands) : p[2] <= Len(returned[p[1]])}

Candidate(p) == returned[p[1]][p[2]]

\* the candidates that share one element identity
Group(item_id) == {p \in Candidates : ItemId(Candidate(p)) = item_id}

\* raw_score * weight[strategy] of a candidate under the call's config
WeightedScore(p) ==
    Candidate(p).score
        * Weight(ConfigGet(config, "method_weights", DefaultWeights), MethodName(p[1]))

\* the highest weighted score of a group
Best(group) ==
    CHOOSE s \in {WeightedScore(p) : p \in group} :
        \A p \in group : WeightedScore(p) <= s

\* what a candidate carries of its element and its match
PayloadFields ==
    {"type", "id", "table_id", "column_name", "score", "search_method",
     "index_id", "matched_alias"}

Payload(dict) == [key \in PayloadFields |-> dict[key]]

\* C9: for every group of candidates sharing one element identity, the fused
\* record's score is the maximum of raw_score * weight over the group, and
\* its payload is the payload of a candidate that achieves that maximum.
C9_FusedKeepsMaximum ==
    fPc = "done" =>
        \A i \in 1..Len(Fused) :
            LET group == Group(ItemId(Fused[i]))
            IN  /\ Fused[i].confidence = Round3(Best(group))
                /\ \E p \in group :
                      /\ WeightedScore(p) = Best(group)
                      /\ Payload(Fused[i]) = Payload(Candidate(p))

\* C10: the search_methods of every fused result are exactly the strategies
\* that returned at least one candidate with that element identity, whatever
\* the order and the scores of the candidates.
C10_AllContributingStrategies ==
    fPc = "done" =>
        \A i \in 1..Len(Fused) :
            {Fused[i].search_methods[m] : m \in 1..Len(Fused[i].search_methods)}
                = {MethodName(p[1]) : p \in Group(ItemId(Fused[i]))}

\* the dicts of the result lists that the fusion took into combined: it set
\* their search_methods, also of those that max_results cut off afterwards
Survivors == {p \in Candidates : Has(results[p[1]][p[2]], "search_methods")}

Survivor(p) == results[p[1]][p[2]]

\* C11: the fused list has no two results with the same element identity,
\* and before truncation every identity that a strategy returned is in the
\* combined list exactly once; the fused list is its first Len(Fused) ranks.
C11_OneResultPerIdentity ==
    fPc = "done" =>
        /\ \A i, j \in 1..Len(Fused) :
               i # j => ItemId(Fused[i]) # ItemId(Fused[j])
        /\ \A p \in Candidates :
               Cardinality({q \in Survivors :
                               ItemId(Survivor(q)) = ItemId(Candidate(p))}) = 1
        /\ \A i \in 1..Len(Fused) :
               \E q \in Survivors : Survivor(q) = Fused[i] /\ Survivor(q).rank = i

\* three candidates, two of them of one identity, fused into two results
C11_Witness ==
    /\ fPc = "done"
    /\ Count(returned) = 3
    /\ Cardinality({ItemId(Candidate(p)) : p \in Candidates}) = 2
    /\ Len(Fused) = 2

\* the lexicographic order of the item_id strings "column_<table_id>_<name>",
\* "dict_<id>", "table_<id>" (ids of one digit)
PrefixRank(prefix) ==
    CASE prefix = "column" -> 1
      [] prefix = "dict" -> 2
      [] prefix = "table" -> 3

KeyBefore(a, b) ==
    \/ PrefixRank(a[1]) < PrefixRank(b[1])
    \/ a[1] = b[1] /\ a[2] < b[2]

\* C12: the fused list is sorted by weighted score descending, and results of
\* equal weighted score are in the lexicographic order of their identity
\* keys, whatever order the strategies produced them in.
C12_SortedTiesByIdentity ==
    fPc = "done" =>
        \A i, j \in 1..Len(Fused) :
            i < j =>
                LET si == Best(Group(ItemId(Fused[i])))
                    sj == Best(Group(ItemId(Fused[j])))
                IN  /\ si >= sj
                    /\ si = sj => KeyBefore(ItemId(Fused[i]), ItemId(Fused[j]))

\* max_results of the call
MaxResults == ConfigGet(config, "max_combined_results", DefaultMaxResults)

\* C13 as stated: for every input and every max_results the fused list has
\* at most max_results entries and its ranks are 1, 2, ..., n in list order.
C13_LengthAndRanks ==
    fPc = "done" =>
        /\ Len(Fused) <= MaxResults
        /\ \A i \in 1..Len(Fused) : Fused[i].rank = i

\* C13 amended: for every input and every max_results >= 0 the fused list
\* has at most max_results entries and its ranks are 1, 2, ..., n in list
\* order.
C13_LengthAndRanksFromZero ==
    (fPc = "done" /\ MaxResults >= 0) =>
        /\ Len(Fused) <= MaxResults
        /\ \A i \in 1..Len(Fused) : Fused[i].rank = i

\* two identities were combined and max_results = 1 cut the list to one
C13_Witness ==
    /\ fPc = "done"
    /\ MaxResults = 1
    /\ Cardinality(Survivors) = 2
    /\ Len(Fused) = 1
    /\ Fused[1].rank = 1

\* identities and confidence values of a fused list, in list order
Summary(list) == [i \in 1..Len(list) |-> <<ItemId(list[i]), list[i].confidence>>]

\* C14: fusion is idempotent: a second _combine_and_rank_results call on the
\* same candidate lists and config returns the same identities in the same
\* order with the same confidence values as the first call returned.
C14_FusionIdempotent ==
    [][(fPc = "done" /\ fPc' = "again") => Summary(again') = Summary(Fused)]_vars

\* the orders in which a map with the five keys can hold its entries
KeyOrders ==
    {keys \in [1..Len(ResultKeys) -> KeySet] :
        \A i, j \in 1..Len(ResultKeys) : i # j => keys[i] # keys[j]}

\* the list _combine_and_rank_results returns for the candidate lists as the
\* strategies returned them, held by the map in the order 'keys'
FusedInOrder(keys) ==
    LET cut == Prefix(CombineInOrder(returned, keys, config), MaxResults)
    IN  [i \in 1..Len(cut) |-> cut[i].dict]

\* identities, confidence and contributing strategies, in list order
Outcome(list) ==
    [i \in 1..Len(list) |->
        <<ItemId(list[i]), list[i].confidence,
          {list[i].search_methods[m] : m \in 1..Len(list[i].search_methods)}>>]

\* C15: the fused output (identities, order, confidence, contributing
\* strategies) is the same for every order in which the input map holds the
\* strategies' candidate lists.
C15_OrderIndependent ==
    fPc = "done" =>
        \A keys \in KeyOrders : Outcome(FusedInOrder(keys)) = Outcome(Fused)

\* the weight of a strategy when every weight the config does not set is
\* that strategy's default
WeightOrDefault(method_name) ==
    LET set == ConfigGet(config, "method_weights", DefaultWeights)
    IN  IF method_name \in DOMAIN set THEN set[method_name]
        ELSE DefaultWeights[method_name]

\* C16: for every strategy the config sets no weight for, fusion uses that
\* strategy's default weight (exact 1.0, semantic 0.8, keyword 0.7, fuzzy
\* 0.6), also when the config sets the weights of only some strategies: the
\* confidence of a fused result is the highest raw score times that weight.
C16_DefaultWeightPerStrategy ==
    fPc = "done" =>
        \A i \in 1..Len(Fused) :
            LET group == Group(ItemId(Fused[i]))
                scores == {Candidate(p).score * WeightOrDefault(MethodName(p[1])) :
                              p \in group}
            IN  \E s \in scores :
                    /\ \A t \in scores : t <= s
                    /\ Fused[i].confidence = Round3(s)

(***************************************************************************)
(* Claims about the raw scores of the strategies.                          *)
(***************************************************************************)
\* C17 (checked under SearchSpec, scores in tenths): every hit that a dense
\* or sparse index search returns, which _semantic_search and
\* _keyword_search pass on with its score unchanged, has a raw score within
\* [0.0, 1.0].
C17_RawScoreInUnitRange ==
    qPc = "done" =>
        \A i \in 1..Len(qOut) : qOut[i].score >= 0 /\ qOut[i].score <= 10

(***************************************************************************)
(* StrategySpec: one run of a strategy for one text.  A text is a sequence *)
(* of characters; scores are in thousandths.                               *)
(***************************************************************************)
\* the longest text a strategy is run for, in characters
MaxText == 2

Chars == {"a", "b", "A"}

Texts == UNION {[1..n -> Chars] : n \in 0..MaxText}

\* str.lower()
LowerChar(c) == IF c = "A" THEN "a" ELSE c

Lower(s) == [i \in 1..Len(s) |-> LowerChar(s[i])]

\* Python's 'needle in hay' for strings
In(needle, hay) ==
    \E i \in 0..(Len(hay) - Len(needle)) :
        SubSeq(hay, i + 1, i + Len(needle)) = needle

\* entry.definition of an entry without a definition
NoDefinition == <<>>

\* the index rows of a project the strategies look at: status, is_built and
\* the hits search_index returns for the text once the row is usable
IndexChoices ==
    {[status |-> "ready", is_built |-> TRUE, hits |-> h] : h \in {<<>>, <<600>>}}
    \cup {[status |-> "building", is_built |-> FALSE, hits |-> <<>>],
          [status |-> "error", is_built |-> FALSE, hits |-> <<>>]}

\* a project: one table with one column, one data dictionary entry, at most
\* one tfidf and at most one faiss index
Projects ==
    [table_name : {<<"a", "b">>, <<"A">>},
     column_name : {<<"b">>},
     term : {<<"a">>},
     definition : {NoDefinition, <<"b", "a">>},
     aliases : {<<>>, << <<"b">> >>},
     tfidf : {<<>>} \cup {<<x>> : x \in IndexChoices},
     faiss : {<<>>, <<[status |-> "ready", is_built |-> TRUE, hits |-> <<600>>]>>}]

EntityTypes == {"unknown", "table", "business_term"}

\* a result dict of a strategy
Match(type, score, method, source) ==
    [type |-> type, score |-> score, search_method |-> method, source |-> source]

\* _exact_search: table names
ExactTables(p, query_lower, entity_type) ==
    IF entity_type \in {"table", "unknown"} /\ In(query_lower, Lower(p.table_name))
    THEN <<Match("table",
                 IF query_lower = Lower(p.table_name) THEN 1000 ELSE 800,
                 "exact", "table_names")>>
    ELSE <<>>

\* _exact_search: column names
ExactColumns(p, query_lower, entity_type) ==
    IF entity_type \in {"column", "unknown"} /\ In(query_lower, Lower(p.column_name))
    THEN <<Match("column",
                 IF query_lower = Lower(p.column_name) THEN 1000 ELSE 800,
                 "exact", "column_names")>>
    ELSE <<>>

\* _exact_search: the aliases of the dictionary entry, from the k-th on
RECURSIVE ExactAliases(_, _, _)
ExactAliases(aliases, query_lower, k) ==
    IF k > Len(aliases) THEN <<>>
    ELSE (IF In(query_lower, Lower(aliases[k]))
          THEN <<Match("dictionary",
                       IF query_lower = Lower(aliases[k]) THEN 900 ELSE 700,
                       "exact", "dictionary_aliases")>>
          ELSE <<>>)
         \o ExactAliases(aliases, query_lower, k + 1)

\* _exact_search: the data dictionary: term, else definition, then aliases
ExactDictionary(p, query_lower, entity_type) ==
    IF entity_type \in {"business_term", "unknown"}
    THEN (IF In(query_lower, Lower(p.term))
          THEN <<Match("dictionary",
                       IF query_lower = Lower(p.term) THEN 1000 ELSE 900,
                       "exact", "dictionary_terms")>>
          ELSE IF p.definition # NoDefinition /\ In(query_lower, Lower(p.definition))
          THEN <<Match("dictionary", 700, "exact", "dictionary_definitions")>>
          ELSE <<>>)
         \o ExactAliases(p.aliases, query_lower, 1)
    ELSE <<>>

\* SearchService._exact_search(project_id, query, entity_type, config)
ExactSearchRun(p, query, entity_type) ==
    ExactTables(p, Lower(query), entity_type)
        \o ExactColumns(p, Lower(query), entity_type)
        \o ExactDictionary(p, Lower(query), entity_type)

StrategyInit ==
    /\ indexes = <<>>
    /\ modelReady = TRUE
    /\ files = [p \in Paths |-> NoFile]
    /\ tasks = [b \in TaskIds |-> NoTask]
    /\ search = NoSearch
    /\ response = NoResponse
    /\ QueryIdle
    /\ FuseIdle
    /\ LoadIdle
    /\ sProject \in Projects
    /\ sText \in Texts
    /\ sType \in EntityTypes
    /\ sMethod = "none"
    /\ sFound = <<>>
    /\ sRaised = FALSE
    /\ sFailed = "none"
    /\ sPc = "call"

\* exact_matches = self._exact_search(project_id, entity_text, entity_type,
\* config); search_by_method with method 'exact'
RunExact ==
    /\ sPc = "call"
    /\ sMethod' = "exact"
    /\ sFound' = ExactSearchRun(sProject, sText, sType)
    /\ sRaised' = FALSE
    /\ sPc' = "done"
    /\ UNCHANGED <<lifeVars, loadVars, queryVars, fuseVars, sProject, sText, sType, sFailed>>

\* _simple_keyword_search: the fallback over names and definitions
SimpleKeywordRun(p, query, entity_type) ==
    LET query_lower == Lower(query)
    IN  (IF entity_type \in {"table", "unknown"} /\ In(query_lower, Lower(p.table_name))
         THEN <<Match("table",
                      IF query_lower = Lower(p.table_name) THEN 1000 ELSE 800,
                      "keyword", "table_names")>>
         ELSE <<>>)
        \o (IF entity_type \in {"column", "unknown"}
               /\ In(query_lower, Lower(p.column_name))
            THEN <<Match("column",
                         IF query_lower = Lower(p.column_name) THEN 1000 ELSE 800,
                         "keyword", "column_names")>>
            ELSE <<>>)
        \o (IF /\ entity_type \in {"business_term", "unknown"}
               /\ \/ In(query_lower, Lower(p.term))
                  \/ p.definition # NoDefinition /\ In(query_lower, Lower(p.definition))
            THEN <<Match("dictionary",
                         IF query_lower = Lower(p.term) THEN 1000 ELSE 800,
                         "keyword", "data_dictionary")>>
            ELSE <<>>)

\* the rows that filter_by(is_built=True, status='ready') selects
ReadyIndexes(rows) == SelectSeq(rows, LAMBDA x : x.is_built /\ x.status = "ready")

\* the hits of the selected indexes, tagged with the strategy's name
RECURSIVE IndexHits(_, _, _)
IndexHits(rows, method, k) ==
    IF k > Len(rows) THEN <<>>
    ELSE [i \in 1..Len(rows[k].hits) |->
             Match("table", rows[k].hits[i], method, "table_info")]
         \o IndexHits(rows, method, k + 1)

\* _keyword_search with the fallback pass run whatever the indexes are
KeywordSearchAlways(p, query, entity_type) ==
    IndexHits(ReadyIndexes(p.tfidf), "keyword", 1)
        \o SimpleKeywordRun(p, query, entity_type)

\* SearchService._keyword_search(project_id, query, entity_type, config)
KeywordSearchRun(p, query, entity_type) ==
    LET tfidf_indexes == ReadyIndexes(p.tfidf)
    IN  IndexHits(tfidf_indexes, "keyword", 1)
            \o (IF tfidf_indexes = <<>>
                THEN SimpleKeywordRun(p, query, entity_type)
                ELSE <<>>)

\* SearchService._semantic_search(query, indexes, config) on the ready
\* indexes of the project
SemanticSearchRun(p, query) == IndexHits(ReadyIndexes(p.faiss), "semantic", 1)

\* the longest common subsequence of two texts
RECURSIVE Common(_, _)
Common(a, b) ==
    IF a = <<>> \/ b = <<>> THEN 0
    ELSE IF Head(a) = Head(b) THEN 1 + Common(Tail(a), Tail(b))
    ELSE LET x == Common(Tail(a), b)
             y == Common(a, Tail(b))
         IN  IF x >= y THEN x ELSE y

\* fuzz.ratio of process.extract: both strings lower-cased by the default
\* processor, 0 for an empty string, else round(100 * 2 * M / T)
Ratio(query, choice) ==
    LET a == Lower(query)
        b == Lower(choice)
        total == Len(a) + Len(b)
    IN  IF a = <<>> \/ b = <<>> THEN 0
        ELSE (400 * Common(a, b) + total) \div (2 * total)

\* config.get('fuzzy_threshold', 70), in points of fuzz.ratio
FuzzyThreshold == 70

\* limit=5 of process.extract
FuzzyLimit == 5

\* the positions of the choices by descending ratio, equal ratios in the
\* order of the list
RECURSIVE BestFirst(_, _, _)
BestFirst(query, names, left) ==
    IF left = {} THEN <<>>
    ELSE LET best == CHOOSE i \in left : \A j \in left :
                         \/ Ratio(query, names[i]) > Ratio(query, names[j])
                         \/ Ratio(query, names[i]) = Ratio(query, names[j]) /\ i <= j
         IN  <<best>> \o BestFirst(query, names, left \ {best})

\* process.extract without its limit: every choice with its ratio
FuzzyExtractAll(query, names) ==
    LET order == BestFirst(query, names, 1..Len(names))
    IN  [k \in 1..Len(order) |-> <<names[order[k]], Ratio(query, names[order[k]])>>]

\* process.extract(query, names, scorer=fuzz.ratio, limit=5): the (match,
\* score) pairs of the five best choices
FuzzyExtract(query, names) ==
    LET all == FuzzyExtractAll(query, names)
    IN  SubSeq(all, 1, IF Len(all) < FuzzyLimit THEN Len(all) ELSE FuzzyLimit)

\* next((c for c in data if c[0] == match), None): the first <<name, id>> of
\* the list with that name
FirstNamed(data, match) ==
    data[CHOOSE i \in 1..Len(data) :
             /\ data[i][1] = match
             /\ \A j \in 1..(i - 1) : data[j][1] # match]

\* one pass of _fuzzy_search over the <<name, id>> list of a category; the
\* threshold is in thousandths of a point, the score is score / 100.0
FuzzyCategory(applies, data, query, threshold, type, source) ==
    IF ~applies \/ data = <<>> THEN <<>>
    ELSE LET matches == FuzzyExtract(query, [i \in 1..Len(data) |-> data[i][1]])
             kept == SelectSeq(matches, LAMBDA m : m[2] * 1000 >= threshold)
         IN  [k \in 1..Len(kept) |->
                 [type |-> type,
                  id |-> FirstNamed(data, kept[k][1])[2],
                  name |-> FirstNamed(data, kept[k][1])[1],
                  score |-> kept[k][2] * 10,
                  search_method |-> "fuzzy",
                  source |-> source]]

\* _fuzzy_search over the table names, the column names (with the id of
\* their table) and the dictionary terms of a project
FuzzyNames(tables, columns, terms, query, entity_type, threshold) ==
    FuzzyCategory(entity_type \in {"table", "unknown"}, tables, query,
                  threshold, "table", "table_names")
        \o FuzzyCategory(entity_type \in {"column", "unknown"}, columns, query,
                         threshold, "column", "column_names")
        \o FuzzyCategory(entity_type \in {"business_term", "unknown"}, terms,
                         query, threshold, "dictionary", "data_dictionary")

\* SearchService._fuzzy_search(project_id, query, entity_type, config) on a
\* project of one table, with the default threshold
FuzzySearchRun(p, query, entity_type) ==
    FuzzyNames(<< <<p.table_name, 1>> >>, << <<p.column_name, 1>> >>,
               << <<p.term, 1>> >>, query, entity_type, FuzzyThreshold * 1000)

\* semantic_matches = self._semantic_search(entity_text, indexes, config)
RunSemantic ==
    /\ sPc = "call"
    /\ sMethod' = "semantic"
    /\ sFound' = SemanticSearchRun(sProject, sText)
    /\ sRaised' = FALSE
    /\ sPc' = "done"
    /\ UNCHANGED <<lifeVars, loadVars, queryVars, fuseVars, sProject, sText, sType, sFailed>>

\* keyword_matches = self._keyword_search(project_id, entity_text, ...)
RunKeyword ==
    /\ sPc = "call"
    /\ sMethod' = "keyword"
    /\ sFound' = KeywordSearchRun(sProject, sText, sType)
    /\ sRaised' = FALSE
    /\ sPc' = "done"
    /\ UNCHANGED <<lifeVars, loadVars, queryVars, fuseVars, sProject, sText, sType, sFailed>>

\* fuzzy_matches = self._fuzzy_search(project_id, entity_text, ...)
RunFuzzy ==
    /\ sPc = "call"
    /\ sMethod' = "fuzzy"
    /\ sFound' = FuzzySearchRun(sProject, sText, sType)
    /\ sRaised' = FALSE
    /\ sPc' = "done"
    /\ UNCHANGED <<lifeVars, loadVars, queryVars, fuseVars, sProject, sText, sType, sFailed>>

\* search_by_method with a method that is none of the four: return []
RunOther ==
    /\ sPc = "call"
    /\ sMethod' = "other"
    /\ sFound' = <<>>
    /\ sRaised' = FALSE
    /\ sPc' = "done"
    /\ UNCHANGED <<lifeVars, loadVars, queryVars, fuseVars, sProject, sText, sType, sFailed>>

StrategyNext ==
    \/ RunSemantic
    \/ RunKeyword
    \/ RunFuzzy
    \/ RunExact
    \/ RunOther

StrategySpec == StrategyInit /\ [][StrategyNext]_vars

(***************************************************************************)
(* Claims about the strategies                                             *)
(***************************************************************************)
\* a finished run of the named strategy
Ran(method) == sPc = "done" /\ sMethod = method

\* the candidates of the run that come from the named source
FromSource(source) == {i \in 1..Len(sFound) : sFound[i].source = source}

\* case-insensitive containment of the text in the name, or of the name in
\* the text
ContainsEitherWay(text, name) ==
    In(Lower(text), Lower(name)) \/ In(Lower(name), Lower(text))

\* C18: the exact strategy returns a candidate for a name exactly when,
\* case-insensitively, the text contains the name or the name contains the
\* text; it scores 1.0 when they are equal, 0.8 for any other containment
\* and 0.7 for a match found only in a definition, and no other score occurs.
C18_ExactContainmentEitherWay ==
    Ran("exact") =>
        /\ sType \in {"table", "unknown"} =>
              (FromSource("table_names") # {}
                  <=> ContainsEitherWay(sText, sProject.table_name))
        /\ sType \in {"business_term", "unknown"} =>
              (FromSource("dictionary_terms") # {}
                  <=> ContainsEitherWay(sText, sProject.term))
        /\ \A i \in FromSource("table_names") :
              sFound[i].score = IF Lower(sText) = Lower(sProject.table_name)
                                THEN 1000 ELSE 800
        /\ \A i \in FromSource("dictionary_terms") :
              sFound[i].score = IF Lower(sText) = Lower(sProject.term)
                                THEN 1000 ELSE 800
        /\ \A i \in FromSource("dictionary_definitions") : sFound[i].score = 700
        /\ \A i \in 1..Len(sFound) : sFound[i].score \in {1000, 800, 700}

\* the candidates of a keyword run that the substring fallback produced
Fallback ==
    FromSource("table_names") \cup FromSource("column_names")
        \cup FromSource("data_dictionary")

\* the name a fallback candidate was matched for
NameOf(found) ==
    IF found.type = "table" THEN sProject.table_name
    ELSE IF found.type = "column" THEN sProject.column_name
    ELSE sProject.term

\* what the fallback pass has to return for the text: one candidate per name
\* (or definition) of the requested type that contains the text
FallbackCovers ==
    /\ sType \in {"table", "unknown"} =>
          (FromSource("table_names") # {}
              <=> In(Lower(sText), Lower(sProject.table_name)))
    /\ sType \in {"column", "unknown"} =>
          (FromSource("column_names") # {}
              <=> In(Lower(sText), Lower(sProject.column_name)))
    /\ sType \in {"business_term", "unknown"} =>
          (FromSource("data_dictionary") # {}
              <=> \/ In(Lower(sText), Lower(sProject.term))
                  \/ In(Lower(sText), Lower(sProject.definition)))

\* C19 as stated: the keyword strategy runs the substring fallback exactly
\* when the project has no sparse index, never in addition to sparse-index
\* results; a fallback candidate scores 1.0 when the name equals the text
\* and 0.8 when the name merely contains it.
C19_FallbackWhenNoIndex ==
    Ran("keyword") =>
        /\ sProject.tfidf # <<>> => Fallback = {}
        /\ sProject.tfidf = <<>> => FallbackCovers
        /\ Fallback # {} => FromSource("table_info") = {}
        /\ \A i \in Fallback :
              /\ Lower(sText) = Lower(NameOf(sFound[i])) => sFound[i].score = 1000
              /\ /\ Lower(sText) # Lower(NameOf(sFound[i]))
                 /\ In(Lower(sText), Lower(NameOf(sFound[i])))
                 => sFound[i].score = 800

\* the project has a sparse index that is built and ready
HasReadyTfidf ==
    \E k \in 1..Len(sProject.tfidf) :
        sProject.tfidf[k].is_built /\ sProject.tfidf[k].status = "ready"

\* C19, amended: the keyword strategy runs the substring fallback over the
\* table, column and glossary names and the glossary definitions exactly
\* when the project has no sparse index that is built and ready, never in
\* addition to sparse-index results; a fallback candidate scores 1.0 when
\* the name equals the text and 0.8 otherwise.
C19_FallbackWhenNoReadyIndex ==
    Ran("keyword") =>
        /\ HasReadyTfidf => Fallback = {}
        /\ ~HasReadyTfidf => FallbackCovers
        /\ Fallback # {} => FromSource("table_info") = {}
        /\ \A i \in Fallback :
              sFound[i].score = IF Lower(sText) = Lower(NameOf(sFound[i]))
                                THEN 1000 ELSE 800

\* a keyword run on a project whose only sparse index is not ready: the
\* fallback ran and found an equal name and a containing name
C19_Witness ==
    /\ Ran("keyword")
    /\ sProject.tfidf # <<>>
    /\ ~HasReadyTfidf
    /\ \E i \in Fallback : sFound[i].score = 1000
    /\ \E i \in Fallback : sFound[i].score = 800

\* the strategy of the run has no built, ready index to search
CannotRun ==
    /\ sMethod = "semantic"
    /\ \A k \in 1..Len(sProject.faiss) :
          ~(sProject.faiss[k].is_built /\ sProject.faiss[k].status = "ready")

\* C20: an empty text is a hard error reported to the caller and produces
\* no candidates, whereas a strategy that cannot run (no index built)
\* returns an empty list without raising.
C20_EmptyTextIsHardError ==
    sPc = "done" =>
        /\ sText = <<>> => sRaised /\ sFound = <<>>
        /\ sText # <<>> /\ CannotRun => ~sRaised /\ sFound = <<>>

(***************************************************************************)
(* EntitySpec: one search_entities call for one entity on a small project, *)
(* with an exception raised in at most one of its steps.                   *)
(***************************************************************************)
\* the steps of search_entities an exception can be raised in
Failures == {"none", "lookup", "semantic", "keyword", "fuzzy", "exact"}

\* the result dict of a strategy's candidate, with the keys the fusion reads
AsDict(match) ==
    LET element == CASE match.type = "table" -> TableElement
                     [] match.type = "column" -> ColumnElement
                     [] OTHER -> DictElement
    IN  [element EXCEPT
            !.score = match.score,
            !.search_method = match.search_method,
            !.index_id = IF match.source = "table_info" THEN 1 ELSE NoId,
            !.rank = IF match.source = "table_info" THEN 1 ELSE NoId,
            !.matched_alias =
                IF match.source = "dictionary_aliases" THEN "alias" ELSE NoText]

AsDicts(found) == [i \in 1..Len(found) |-> AsDict(found[i])]

\* what the strategy behind a key of the results dict returns for the entity;
\* its own except clause turns an exception into []
StrategyRun(key) ==
    CASE key = "semantic_results" -> AsDicts(SemanticSearchRun(sProject, sText))
      [] key = "keyword_results" -> AsDicts(KeywordSearchRun(sProject, sText, sType))
      [] key = "fuzzy_results" -> AsDicts(FuzzySearchRun(sProject, sText, sType))
      [] key = "exact_results" -> AsDicts(ExactSearchRun(sProject, sText, sType))

\* a strategy called for the entity: its own except clause turns an
\* exception into []
StrategyCall(method, found) ==
    IF sFailed = method THEN <<>> ELSE AsDicts(found)

EntityInit ==
    /\ indexes = <<>>
    /\ modelReady = TRUE
    /\ files = [p \in Paths |-> NoFile]
    /\ tasks = [b \in TaskIds |-> NoTask]
    /\ search = NoSearch
    /\ response = NoResponse
    /\ QueryIdle
    /\ FuseIdle
    /\ LoadIdle
    /\ sProject \in Projects
    /\ sText \in Texts
    /\ sType \in EntityTypes
    /\ sMethod = "none"
    /\ sFound = <<>>
    /\ sRaised = FALSE
    /\ sFailed \in Failures
    /\ sPc = "lookup"

\* indexes = SearchIndex.query.filter_by(...).all(), inside the try of
\* search_entities: an exception is caught by its except clause, which
\* returns results as they are
LookupIndexes ==
    /\ sPc = "lookup"
    /\ sPc' = IF sFailed = "lookup" THEN "done" ELSE "semantic"
    /\ UNCHANGED <<lifeVars, loadVars, queryVars, fuseVars, sProject, sText, sType,
                   sMethod, sFound, sRaised, sFailed>>

\* results['semantic_results'].extend(self._semantic_search(...))
EntitySemantic ==
    /\ sPc = "semantic"
    /\ \E found \in {StrategyCall("semantic", SemanticSearchRun(sProject, sText))} :
          /\ results' = [results EXCEPT !["semantic_results"] = @ \o found]
          /\ returned' = [returned EXCEPT !["semantic_results"] = @ \o found]
    /\ sPc' = "keyword"
    /\ UNCHANGED <<lifeVars, loadVars, queryVars, config, fPc, again, sProject, sText,
                   sType, sMethod, sFound, sRaised, sFailed>>

\* results['keyword_results'].extend(self._keyword_search(...))
EntityKeyword ==
    /\ sPc = "keyword"
    /\ \E found \in {StrategyCall("keyword", KeywordSearchRun(sProject, sText, sType))} :
          /\ results' = [results EXCEPT !["keyword_results"] = @ \o found]
          /\ returned' = [returned EXCEPT !["keyword_results"] = @ \o found]
    /\ sPc' = "fuzzy"
    /\ UNCHANGED <<lifeVars, loadVars, queryVars, config, fPc, again, sProject, sText,
                   sType, sMethod, sFound, sRaised, sFailed>>

\* results['fuzzy_results'].extend(self._fuzzy_search(...))
EntityFuzzy ==
    /\ sPc = "fuzzy"
    /\ \E found \in {StrategyCall("fuzzy", FuzzySearchRun(sProject, sText, sType))} :
          /\ results' = [results EXCEPT !["fuzzy_results"] = @ \o found]
          /\ returned' = [returned EXCEPT !["fuzzy_results"] = @ \o found]
    /\ sPc' = "exact"
    /\ UNCHANGED <<lifeVars, loadVars, queryVars, config, fPc, again, sProject, sText,
                   sType, sMethod, sFound, sRaised, sFailed>>

\* results['exact_results'].extend(self._exact_search(...))
EntityExact ==
    /\ sPc = "exact"
    /\ \E found \in {StrategyCall("exact", ExactSearchRun(sProject, sText, sType))} :
          /\ results' = [results EXCEPT !["exact_results"] = @ \o found]
          /\ returned' = [returned EXCEPT !["exact_results"] = @ \o found]
    /\ sPc' = "combine"
    /\ UNCHANGED <<lifeVars, loadVars, queryVars, config, fPc, again, sProject, sText,
                   sType, sMethod, sFound, sRaised, sFailed>>

\* results['combined_results'] = self._combine_and_rank_results(results,
\* entities, config); return results
EntityCombine ==
    /\ sPc = "combine"
    /\ \E combined \in {CombineAndRank(results, config)} :
          LET max_results == ConfigGet(config, "max_combined_results", DefaultMaxResults)
              cut == Prefix(combined, max_results)
          IN  results' = [Mutated(results, combined) EXCEPT
                             !["combined_results"] =
                                 [i \in 1..Len(cut) |-> cut[i].dict]]
    /\ sPc' = "done"
    /\ UNCHANGED <<lifeVars, loadVars, queryVars, returned, config, fPc, again, sProject,
                   sText, sType, sMethod, sFound, sRaised, sFailed>>

EntityNext ==
    \/ LookupIndexes
    \/ EntitySemantic
    \/ EntityKeyword
    \/ EntityFuzzy
    \/ EntityExact
    \/ EntityCombine

EntitySpec == EntityInit /\ [][EntityNext]_vars

(***************************************************************************)
(* Claims about search_entities, checked under EntitySpec.                 *)
(***************************************************************************)
\* the keys of the four strategies in the results dict
StrategyKeys == KeySet \ {"combined_results"}

\* C21: a failure in one strategy or in the lookup of the project's indexes
\* empties that strategy's list only: the candidates of every other strategy
\* are still computed and appear in the fused result of search_entities.
C21_FailureStaysLocal ==
    sPc = "done" =>
        \A key \in StrategyKeys :
            MethodName(key) # sFailed =>
                /\ returned[key] = StrategyRun(key)
                /\ \A j \in 1..Len(returned[key]) :
                      \E i \in 1..Len(results["combined_results"]) :
                          ItemId(results["combined_results"][i])
                              = ItemId(returned[key][j])

(***************************************************************************)
(* Claims about create_index and the builds, checked under Spec.           *)
(***************************************************************************)
\* C22: create_index rejects synchronously, creating no descriptor and
\* starting no build, whenever a dense index has no model in 'ready' state
\* or a non-empty target_ids contains an id that does not exist in the
\* project for the requested target_type: every step that adds a descriptor
\* adds one with a ready model (if dense) and with existing targets only.
C22_CreateValidates ==
    [][Len(indexes') > Len(indexes) =>
          LET row == indexes'[Len(indexes')]
          IN  /\ row.index_type = "faiss" =>
                    row.embedding_model_id # NoModel /\ modelReady
              /\ row.target_ids \subseteq TargetRows(row.target_type)]_vars

\* thread b takes the step that collects the texts of its descriptor
Collects(b) == tasks[b].pc = "build" /\ tasks'[b].pc # "build"

\* C23: a descriptor created with empty target_ids covers all elements of
\* its target_type: when the project has at least one and the model is
\* available, its build collects the text of every such element and goes on
\* to a 'ready' descriptor with that vector_count.
C23_EmptyTargetsCoverAll ==
    [][\A b \in TaskIds :
          LET row == indexes[tasks[b].index_id]
          IN  (Collects(b) /\ row.target_ids = {} /\ modelReady) =>
                  /\ tasks'[b].pc = "encode"
                  /\ tasks'[b].n = Cardinality(TargetRows(row.target_type))]_vars

\* thread b ends a build that failed
FailedBuildEnds(b) ==
    /\ tasks[b].pc = "finish"
    /\ tasks[b].result # "success"
    /\ tasks'[b].pc # "finish"

\* C24: whenever a build fails, the descriptor ends in status 'error' with a
\* non-empty error message, and no 'ready' descriptor references an index
\* file that a build has written only in part.
C24_FailedBuildEndsError ==
    [][/\ \A b \in TaskIds :
             FailedBuildEnds(b) =>
                 /\ indexes'[tasks[b].index_id].status = "error"
                 /\ indexes'[tasks[b].index_id].error_message # ""
       /\ \A d \in 1..Len(indexes') :
             indexes'[d].status = "ready" =>
                 \A b \in TaskIds :
                     tasks'[b].pc = "write_meta" =>
                         indexes'[d].index_path # <<"faiss", tasks'[b].sidx>>]_vars

\* the files of descriptor d
FilesOf(d) == {p \in Paths : p[2] = d}

\* C25: a create or rebuild of descriptor d builds with d's own id and
\* stored target configuration and changes only d: no step of the build of d
\* changes target_ids, target_type or model of d, or the row or the index
\* files of any other descriptor.
C25_BuildChangesOnlyItsDescriptor ==
    [][\A b \in TaskIds :
          (InBuild(b) /\ tasks'[b] # tasks[b]) =>
              LET d == tasks[b].index_id
              IN  /\ indexes'[d].target_ids = indexes[d].target_ids
                  /\ indexes'[d].target_type = indexes[d].target_type
                  /\ indexes'[d].embedding_model_id = indexes[d].embedding_model_id
                  /\ \A o \in 1..Len(indexes) :
                        o # d =>
                            /\ indexes'[o] = indexes[o]
                            /\ \A p \in FilesOf(o) : files'[p] = files[p]]_vars

(***************************************************************************)
(* LiveSpec: the requests and the background threads of the lifecycle,     *)
(* with every started thread running on until it returns.                  *)
(***************************************************************************)
\* one step of background thread b
ThreadStep(b) ==
    \/ RebuildNext(b)
    \/ BuildCollect(b)
    \/ BuildEncode(b)
    \/ BuildWriteIndex(b)
    \/ BuildWriteMeta(b)
    \/ BuildWriteRaises(b)
    \/ BuildUpdate(b)
    \/ TaskFinish(b)
    \/ TaskCommitRaises(b)

LiveNext ==
    \/ CreateIndex
    \/ RebuildIndexes
    \/ \E b \in TaskIds : ThreadStep(b)
    \/ ModelUnavailable
    \/ ModelAvailable

\* threading.Thread(target=...).start(): a started thread is scheduled until
\* its function returns
LiveSpec ==
    /\ Init
    /\ [][LiveNext]_vars
    /\ \A b \in TaskIds : WF_vars(ThreadStep(b))

\* C26: every descriptor that enters 'building' eventually reaches 'ready'
\* or 'error' while the background threads keep running, whatever fails,
\* and a descriptor in 'error' is moved back to 'building' only by a thread
\* of a rebuild request that names it.
C26_BuildingEnds ==
    /\ \A d \in IndexIds :
          (Exists(d) /\ indexes[d].status = "building")
              ~> (Exists(d) /\ indexes[d].status \in {"ready", "error"})
    /\ [][\A d \in 1..Len(indexes) :
             (indexes[d].status = "error" /\ indexes'[d].status = "building") =>
                 \E b \in TaskIds :
                     /\ tasks[b].kind = "rebuild"
                     /\ tasks[b].pc = "next"
                     /\ tasks[b].queue # <<>>
                     /\ Head(tasks[b].queue) = d]_vars

(***************************************************************************)
(* LoadSpec: EmbeddingService.load_model(model_id) for one model id.       *)
(* Every route and thread that needs the encoder constructs its own        *)
(* EmbeddingService (embedding_routes.py 353, 446, search_routes.py 199,   *)
(* SearchService.__init__), so every caller has its own models_cache.      *)
(***************************************************************************)
\* the requests and threads that call load_model
MaxCallers == 3
\* the calls one caller makes on its EmbeddingService
MaxLoadCalls == 2

Callers == 1..MaxCallers

LoadInit ==
    /\ indexes = <<>>
    /\ modelReady = TRUE
    /\ files = [p \in Paths |-> NoFile]
    /\ tasks = [b \in TaskIds |-> NoTask]
    /\ search = NoSearch
    /\ response = NoResponse
    /\ QueryIdle
    /\ FuseIdle
    /\ StrategyIdle
    /\ lCalls = [c \in Callers |-> NoCall]
    /\ lCache = [c \in Callers |-> FALSE]   \* self.models_cache = {}
    /\ lLoads = 0

\* "if model_id in self.models_cache: return self.models_cache[model_id]",
\* else the checks of the model row, which return None for a model that is
\* not ready
LoadCheck(c) ==
    /\ lCalls[c].pc = "idle"
    /\ lCalls[c].calls < MaxLoadCalls
    /\ lCalls' = [lCalls EXCEPT ![c] =
           IF lCache[c] \/ ~modelReady
           THEN [@ EXCEPT !.calls = @ + 1]
           ELSE [@ EXCEPT !.pc = "construct"]]
    /\ UNCHANGED <<lifeVars, queryVars, fuseVars, stratVars, lCache, lLoads>>

\* model = SentenceTransformer(embedding_model.model_path)
LoadConstruct(c) ==
    /\ lCalls[c].pc = "construct"
    /\ lLoads' = lLoads + 1
    /\ lCalls' = [lCalls EXCEPT ![c].pc = "store"]
    /\ UNCHANGED <<lifeVars, queryVars, fuseVars, stratVars, lCache>>

\* self.models_cache[model_id] = model; return model
LoadStore(c) ==
    /\ lCalls[c].pc = "store"
    /\ lCache' = [lCache EXCEPT ![c] = TRUE]
    /\ lCalls' = [lCalls EXCEPT ![c] = [pc |-> "idle", calls |-> @.calls + 1]]
    /\ UNCHANGED <<lifeVars, queryVars, fuseVars, stratVars, lLoads>>

LoadNext ==
    \/ \E c \in Callers : LoadCheck(c)
    \/ \E c \in Callers : LoadConstruct(c)
    \/ \E c \in Callers : LoadStore(c)

LoadSpec == LoadInit /\ [][LoadNext]_vars

\* C27: under any interleaving of concurrent load_model calls the encoder of
\* a model id is loaded from storage at most once per process; later calls
\* get the cached handle.
C27_LoadedAtMostOnce == lLoads <= 1

(***************************************************************************)
(* FuzzySpec: one _fuzzy_search call on a project given by the <<name, id>> *)
(* lists of its tables, columns (id: the table) and dictionary terms, with *)
(* the fuzzy_threshold of the config.  A configured value is in            *)
(* thousandths: 700 is 0.7, 50000 is 50.                                   *)
(***************************************************************************)
\* two tables that both have a column b
SharedColumnProject ==
    [tables |-> << <<(<<"a", "b">>), 1>>, <<(<<"b", "a">>), 2>> >>,
     columns |-> << <<(<<"b">>), 1>>, <<(<<"a">>), 1>>, <<(<<"b">>), 2>> >>,
     terms |-> << <<(<<"a">>), 1>> >>]

\* six tables, one column, no dictionary
WideProject ==
    [tables |-> << <<(<<"a">>), 1>>, <<(<<"a", "b">>), 2>>, <<(<<"b", "a">>), 3>>,
                   <<(<<"a", "a">>), 4>>, <<(<<"A">>), 5>>, <<(<<"A", "b">>), 6>> >>,
     columns |-> << <<(<<"b">>), 1>> >>,
     terms |-> <<>>]

FuzzyProjects == {SharedColumnProject, WideProject}

FuzzyTypes == {"unknown", "table", "column", "business_term"}

\* search configs: none, fuzzy_threshold 0.7 and fuzzy_threshold 50
ThresholdChoices ==
    {NoConfig, [fuzzy_threshold |-> 700], [fuzzy_threshold |-> 50000]}

\* threshold = config.get('fuzzy_threshold', 70), in thousandths
Threshold(cfg) == ConfigGet(cfg, "fuzzy_threshold", FuzzyThreshold * 1000)

FuzzyInit ==
    /\ indexes = <<>>
    /\ modelReady = TRUE
    /\ files = [p \in Paths |-> NoFile]
    /\ tasks = [b \in TaskIds |-> NoTask]
    /\ search = NoSearch
    /\ response = NoResponse
    /\ QueryIdle
    /\ LoadIdle
    /\ results = [k \in KeySet |-> <<>>]
    /\ returned = [k \in KeySet |-> <<>>]
    /\ config \in ThresholdChoices
    /\ fPc = "idle"
    /\ again = <<>>
    /\ sProject \in FuzzyProjects
    /\ sText \in Texts
    /\ sType \in FuzzyTypes
    /\ sMethod = "none"
    /\ sFound = <<>>
    /\ sRaised = FALSE
    /\ sFailed = "none"
    /\ sPc = "call"

\* self._fuzzy_search(project_id, query, entity_type, config)
FuzzyCall ==
    /\ sPc = "call"
    /\ sMethod' = "fuzzy"
    /\ sFound' = FuzzyNames(sProject.tables, sProject.columns, sProject.terms,
                            sText, sType, Threshold(config))
    /\ sRaised' = FALSE
    /\ sPc' = "done"
    /\ UNCHANGED <<lifeVars, loadVars, queryVars, fuseVars, sProject, sText,
                   sType, sFailed>>

FuzzyNext == FuzzyCall

FuzzySpec == FuzzyInit /\ [][FuzzyNext]_vars

(***************************************************************************)
(* Claims about the fuzzy strategy, checked under FuzzySpec.               *)
(***************************************************************************)
\* the candidates of the run that are of the given type
OfType(type) == {i \in 1..Len(sFound) : sFound[i].type = type}

\* the categories of names the fuzzy strategy searches
Categories == {"table", "column", "dictionary"}

\* C28 as stated: every fuzzy candidate has similarity at or above the
\* configured threshold, the threshold being configured on the 0-1 scale
\* (default 0.70), and at most 5 candidates are returned per category.
C28_AboveThresholdOnUnitScale ==
    Ran("fuzzy") =>
        /\ \A i \in 1..Len(sFound) :
              sFound[i].score >= ConfigGet(config, "fuzzy_threshold", 700)
        /\ \A type \in Categories : Cardinality(OfType(type)) <= FuzzyLimit

\* C28, amended: every fuzzy candidate has similarity at or above the
\* configured threshold divided by 100, the threshold being configured in
\* points of the 0-100 ratio (default 70, similarity 0.70), and at most 5
\* candidates are returned per category.
C28_AboveThresholdInPoints ==
    Ran("fuzzy") =>
        /\ \A i \in 1..Len(sFound) : sFound[i].score * 100 >= Threshold(config)
        /\ \A type \in Categories : Cardinality(OfType(type)) <= FuzzyLimit

\* a run with a configured threshold on a project with more tables than the
\* limit, with as many table candidates as the limit allows
C28_Witness ==
    /\ Ran("fuzzy")
    /\ config # NoConfig
    /\ Len(sProject.tables) > FuzzyLimit
    /\ Cardinality(OfType("table")) = FuzzyLimit
    /\ \E i \in OfType("table") : sFound[i].score < 1000

\* the element a candidate stands for
Identity(found) == <<found.type, found.id, found.name>>

\* the columns of the project whose name is within the threshold of the text
MatchingColumns ==
    {k \in 1..Len(sProject.columns) :
        Ratio(sText, sProject.columns[k][1]) * 1000 >= Threshold(config)}

\* C30: for one text the fuzzy strategy never returns two candidates with
\* the same element identity, every column candidate's table is a table
\* that has that column, and when two tables have a matching column of the
\* same name both columns are returned.
C30_FuzzyDistinctIdentities ==
    Ran("fuzzy") =>
        /\ \A i, j \in 1..Len(sFound) :
              i # j => Identity(sFound[i]) # Identity(sFound[j])
        /\ \A i \in OfType("column") :
              \E k \in 1..Len(sProject.columns) :
                  sProject.columns[k] = <<sFound[i].name, sFound[i].id>>
        /\ (sType \in {"column", "unknown"}
                /\ Cardinality(MatchingColumns) <= FuzzyLimit) =>
              \A k \in MatchingColumns :
                  \E i \in OfType("column") :
                      <<sFound[i].name, sFound[i].id>> = sProject.columns[k]

(***************************************************************************)
(* A claim about the per-strategy lists after fusion, checked under        *)
(* FuseSpec.                                                               *)
(***************************************************************************)
\* the keys of the lists the strategies fill
StrategyLists == KeySet \ {"combined_results"}

\* C29: after search_entities returns, every entry of a per-strategy list
\* <m>_results still has the raw score strategy m gave it and search_method
\* m: fusion does not overwrite one strategy's candidate with the fields of
\* another strategy's candidate for the same element.
C29_FusionKeepsStrategyLists ==
    fPc = "done" =>
        \A key \in StrategyLists :
            \A j \in 1..Len(results[key]) :
                /\ results[key][j].search_method = MethodName(key)
                /\ results[key][j].score = returned[key][j].score

====
